---- MODULE Spec2Model ----
(***************************************************************************)
(* Model of Mermaid_chart_generator_agent.py: the POST /mermaid handler    *)
(* (generator -> extractor -> writer -> renderer), the GET /get_png        *)
(* handler, and the three files they share (readme.md, temp.html,          *)
(* mermaid_diagram.png).                                                   *)
(*                                                                         *)
(* Text is a sequence of one-character strings.  Three pieces of fixed     *)
(* text that contain no backtick and no line break are kept as one element *)
(* each: the tag word "mermaid", the heading "## Mermaid Diagram" and the  *)
(* two fixed messages of the handler.  None (Python) is the one-element    *)
(* sequence <<"None">>.                                                    *)
(***************************************************************************)
EXTENDS Integers, Sequences, FiniteSets, TLC

\* Longest input text of the pure-function specification, in pieces.
MaxPieces == 5

\* Number of POST /mermaid requests.
MaxRequests == 2

-----------------------------------------------------------------------------
(* Python values and string operations *)

None == <<"None">>

\* Truth value of (if x:) for a str-or-None value.
PyTruthy(x) == x # None /\ x # <<>>

\* Characters str.strip() removes.
Whitespace == {" ", "\t", "\n", "\r"}

RECURSIVE lstrip(_)
lstrip(s) ==
    IF s # <<>> /\ Head(s) \in Whitespace THEN lstrip(Tail(s)) ELSE s

RECURSIVE rstrip(_)
rstrip(s) ==
    IF s # <<>> /\ s[Len(s)] \in Whitespace
    THEN rstrip(SubSeq(s, 1, Len(s) - 1))
    ELSE s

\* A defect to test the claims against: the match returned without .strip().
strip_missing(s) == s

strip(s) == rstrip(lstrip(s))

\* text[i..] begins with pat.
StartsAt(text, i, pat) ==
    /\ i >= 1
    /\ i + Len(pat) - 1 <= Len(text)
    /\ SubSeq(text, i, i + Len(pat) - 1) = pat

-----------------------------------------------------------------------------
(* extract_mermaid_code: re.search over the pattern of line 45, with DOTALL *)

\* The backtick character (written as a word: a backtick inside a TLA+ string
\* confuses the lexer).
BT == "backtick"

Fence == <<BT, BT, BT>>
OpenFence == Fence \o <<"mermaid">>

\* A defect to test the claims against: (.*) instead of (.*?), the group
\* running to the LAST closing fence.
RECURSIVE GreedyEnd(_, _)
GreedyEnd(text, j) ==
    IF j + Len(Fence) - 1 > Len(text) THEN 0
    ELSE LET later == GreedyEnd(text, j + 1)
         IN  IF later # 0 THEN later
             ELSE IF StartsAt(text, j, Fence) THEN j ELSE 0

\* The lazy group (.*?) with DOTALL: the group grows one character at a
\* time, of any kind, until the closing fence matches; 0 when it never does.
RECURSIVE LazyEnd(_, _)
LazyEnd(text, j) ==
    IF j + Len(Fence) - 1 > Len(text) THEN 0
    ELSE IF StartsAt(text, j, Fence) THEN j
    ELSE LazyEnd(text, j + 1)

NoMatch == [found |-> FALSE, group1 |-> <<>>]

\* re.search: the match attempt is made at every start position, left to
\* right, and the first position where the whole pattern matches wins.
RECURSIVE re_search(_, _)
re_search(text, i) ==
    IF i > Len(text) THEN NoMatch
    ELSE IF StartsAt(text, i, OpenFence)
            /\ LazyEnd(text, i + Len(OpenFence)) # 0
         THEN [found  |-> TRUE,
               group1 |-> SubSeq(text, i + Len(OpenFence),
                                 LazyEnd(text, i + Len(OpenFence)) - 1)]
         ELSE re_search(text, i + 1)

extract_mermaid_code(text) ==
    LET match == re_search(text, 1)
    IN  IF match.found THEN strip(match.group1) ELSE None

-----------------------------------------------------------------------------
(* Text-mode file I/O: open(..., "w") and open(..., "r") *)

\* os.linesep of the two platforms the source names (line 70/71).
LineSeps == {<<"\n">>, <<"\r", "\n">>}

\* Text-mode write: every "\n" written becomes linesep on disk.
RECURSIVE TextWrite(_, _)
TextWrite(s, linesep) ==
    IF s = <<>> THEN <<>>
    ELSE (IF Head(s) = "\n" THEN linesep ELSE <<Head(s)>>)
         \o TextWrite(Tail(s), linesep)

\* Text-mode read (universal newlines): "\r\n" and a lone "\r" are both
\* returned as "\n".
RECURSIVE TextRead(_)
TextRead(b) ==
    IF b = <<>> THEN <<>>
    ELSE IF Head(b) = "\r"
         THEN IF Len(b) >= 2 /\ b[2] = "\n"
              THEN <<"\n">> \o TextRead(SubSeq(b, 3, Len(b)))
              ELSE <<"\n">> \o TextRead(Tail(b))
         ELSE <<Head(b)>> \o TextRead(Tail(b))

\* A defect to test the claims against: the closing fence is not written.
ReadmeTextUnclosed(mermaid_code) ==
    <<"## Mermaid Diagram", "\n">> \o OpenFence \o <<"\n">> \o mermaid_code

\* The four f.write calls of save_to_readme, in order.
ReadmeText(mermaid_code) ==
    <<"## Mermaid Diagram", "\n">>
    \o (OpenFence \o <<"\n">>)
    \o mermaid_code
    \o (<<"\n">> \o Fence \o <<"\n">>)

\* A file opened with "w" gets its own offset 0: what it writes replaces the
\* first Len(data) characters on disk and leaves whatever lies beyond them.
WriteAt0(old, data) ==
    IF Len(old) > Len(data)
    THEN data \o SubSeq(old, Len(data) + 1, Len(old))
    ELSE data

-----------------------------------------------------------------------------
(* Inputs of the pure-function specification *)

Pieces == {OpenFence, Fence, <<BT>>, <<"A">>, <<"\n">>, <<"\r">>}

RECURSIVE Flatten(_)
Flatten(ps) == IF ps = <<>> THEN <<>> ELSE Head(ps) \o Flatten(Tail(ps))

Texts == { Flatten(ps) : ps \in UNION { [1..n -> Pieces] : n \in 0..MaxPieces } }

-----------------------------------------------------------------------------
(* The request body: what request.get_json() can return *)

\* A JSON value, as far as lines 125-128 look at it: its kind, its truth
\* value, and whether it holds "project_description" (as a key of an object,
\* an item of an array, a substring of a string).
Bodies ==
    { [kind |-> "null",   truthy |-> FALSE, has |-> FALSE],    \* null
      [kind |-> "object", truthy |-> FALSE, has |-> FALSE],    \* {}
      [kind |-> "object", truthy |-> TRUE,  has |-> FALSE],    \* {"other": 1}
      [kind |-> "object", truthy |-> TRUE,  has |-> TRUE],     \* {"project_description": "..."}
      [kind |-> "number", truthy |-> TRUE,  has |-> FALSE],    \* 5
      [kind |-> "array",  truthy |-> TRUE,  has |-> TRUE] }    \* ["project_description"]

NoBody == [kind |-> "none", truthy |-> FALSE, has |-> FALSE]

\* 'project_description' in data: membership for the containers, TypeError
\* for a value that is not iterable.
py_in(data) ==
    IF data.kind \in {"object", "array", "string"}
    THEN (IF data.has THEN "True" ELSE "False")
    ELSE "TypeError"

\* data['project_description']: only an object is indexed by a string.
py_getitem(data) ==
    IF data.kind = "object"
    THEN (IF data.has THEN "value" ELSE "KeyError")
    ELSE "TypeError"

\* Lines 124-128: "400" is the return of line 126; an exception raised by
\* line 125 or by line 128 leaves the handler (the framework answers 500).
Validate(data) ==
    IF ~data.truthy THEN "400"
    ELSE IF py_in(data) = "TypeError" THEN "raise125"
    ELSE IF py_in(data) = "False" THEN "400"
    ELSE IF py_getitem(data) # "value" THEN "raise128"
    ELSE "ok"

-----------------------------------------------------------------------------
(* The model call and the replies it is given here *)

Reply_Empty == <<>>
Reply_NoBlock == <<"A", " ", "B">>
Reply_A == OpenFence \o <<"\n", "A", "\n">> \o Fence
Reply_B == <<"B", ":", "\n">> \o OpenFence \o <<"\n", "B", "\n", "B", "\n">> \o Fence \o <<"\n">>
Reply_EmptyBlock == OpenFence \o <<"\n">> \o Fence

Replies == {Reply_Empty, Reply_NoBlock, Reply_A, Reply_B, Reply_EmptyBlock}

\* What llm.invoke does: raises, or returns a response with this content.
LlmOutcomes ==
    {[raised |-> TRUE, content |-> <<>>]}
    \cup {[raised |-> FALSE, content |-> c] : c \in Replies}

\* Lines 35-41.
generate_mermaid_code(outcome) ==
    IF outcome.raised THEN None ELSE outcome.content

-----------------------------------------------------------------------------
(* The handler: lines 129-145 and the page of lines 147-174 *)

FAILED == <<"Failed to generate Mermaid code.">>
NOT_FOUND == <<"Mermaid code not found in the response.">>

\* A defect to test the claims against: line 134 tests (is not None) only
\* and line 136 is skipped, whatever was extracted is written.
BranchUnchecked(mermaid_text) ==
    IF mermaid_text # None
    THEN [extracted |-> TRUE, proceed |-> TRUE,
          mermaid_code |-> extract_mermaid_code(mermaid_text)]
    ELSE [extracted |-> TRUE, proceed |-> FALSE,
          mermaid_code |-> NOT_FOUND]

\* Lines 134-145: whether the extractor is called, whether the writer and
\* the renderer are, and the value mermaid_code ends with.
Branch(mermaid_text) ==
    IF PyTruthy(mermaid_text)
    THEN IF PyTruthy(extract_mermaid_code(mermaid_text))
         THEN [extracted |-> TRUE, proceed |-> TRUE,
               mermaid_code |-> extract_mermaid_code(mermaid_text)]
         ELSE [extracted |-> TRUE, proceed |-> FALSE,
               mermaid_code |-> NOT_FOUND]
    ELSE [extracted |-> FALSE, proceed |-> FALSE, mermaid_code |-> FAILED]

NoResponse == [status |-> 0, ctype |-> "", shown |-> None, img |-> FALSE]

\* Line 126.
Error400 ==
    [status |-> 400, ctype |-> "application/json", shown |-> None, img |-> FALSE]

\* The framework answer to an exception that leaves the handler.
Error500 ==
    [status |-> 500, ctype |-> "text/html", shown |-> None, img |-> FALSE]

\* Lines 147-174: the template shows mermaid_code when it is truthy and the
\* <img> when png_available.
Page(mermaid_code, png_available) ==
    [status |-> 200, ctype |-> "text/html",
     shown  |-> IF PyTruthy(mermaid_code) THEN mermaid_code ELSE None,
     img    |-> png_available]

\* Lines 87-106: the markup placed in the page, unescaped.
HtmlPage(mermaid_code) ==
    <<"<div class=mermaid>">> \o mermaid_code \o <<"</div>">>

\* A defect to test the claims against: the page is left behind.
os_remove_skipped(file) == file

\* Line 113.
os_remove(file) == [exists |-> FALSE, content |-> <<>>, by |-> 0]

NoGet == [status |-> 0, ctype |-> "", body |-> <<>>]

\* A defect to test the claims against: the wrong exception is caught, a
\* missing file leaves the handler.
get_png_uncaught(file) ==
    IF file.exists
    THEN [status |-> 200, ctype |-> "image/png", body |-> file.content]
    ELSE [status |-> 500, ctype |-> "text/html", body |-> <<>>]

\* Lines 176-182.
get_png(file) ==
    IF file.exists
    THEN [status |-> 200, ctype |-> "image/png", body |-> file.content]
    ELSE [status |-> 404, ctype |-> "text/html", body |-> <<"PNG image not found.">>]

-----------------------------------------------------------------------------
\* The requests, each handled once, by a thread of its own.
Requests == 1..MaxRequests


VARIABLES
    newline,        \* os.linesep of the host
    readme,         \* readme.md:           [exists, content, by]
    temp,           \* temp.html:           [exists, content, by]
    png,            \* mermaid_diagram.png: [exists, content, by]
    pc,             \* where each request is in mermaid_endpoint
    data,           \* request.get_json()
    passed,         \* the test of line 125 was evaluated and was false
    mermaid_text,   \* line 132
    mermaid_code,   \* lines 129, 135, 143, 145
    called,         \* which of the four functions the request has called
    save_ret,       \* what save_to_readme returned
    conv_code,      \* convert_readme_to_png: its own mermaid_code (line 80)
    conv_by,        \* whose document that code was read from
    conv_ret,       \* what convert_readme_to_png returned
    conv_exc,       \* the step of it that failed
    rendered_from,  \* whose markup imgkit rendered for this request
    response,       \* the answer to POST /mermaid
    render_ok,      \* some convert_readme_to_png has returned True
    get_resp,       \* the answer of the GET /get_png just served, if any
    fn_text,        \* pure functions: the argument
    fn_op,          \* pure functions: what has been applied to it
    fn_out          \* pure functions: the result

files == <<readme, temp, png>>
locals == <<pc, data, passed, mermaid_text, mermaid_code, called, save_ret,
            conv_code, conv_by, conv_ret, conv_exc, rendered_from, response>>
fnvars == <<fn_text, fn_op, fn_out>>
vars == <<newline, files, locals, render_ok, get_resp, fnvars>>

\* The "by" of a file names the request whose markup it holds, 0 when it
\* holds none.
NoFile == [exists |-> FALSE, content |-> <<>>, by |-> 0]

InitFiles ==
    /\ readme = NoFile
    /\ temp = NoFile
    /\ png = NoFile

InitRequests ==
    /\ pc = [r \in Requests |-> "idle"]
    /\ data = [r \in Requests |-> NoBody]
    /\ passed = [r \in Requests |-> FALSE]
    /\ mermaid_text = [r \in Requests |-> None]
    /\ mermaid_code = [r \in Requests |-> None]
    /\ called = [r \in Requests |-> {}]
    /\ save_ret = [r \in Requests |-> "-"]
    /\ conv_code = [r \in Requests |-> None]
    /\ conv_by = [r \in Requests |-> 0]
    /\ conv_ret = [r \in Requests |-> "-"]
    /\ conv_exc = [r \in Requests |-> "-"]
    /\ rendered_from = [r \in Requests |-> 0]
    /\ response = [r \in Requests |-> NoResponse]
    /\ render_ok = FALSE
    /\ get_resp = NoGet

\* The host is the one line 70 configures the renderer for.
Init ==
    /\ newline = <<"\r", "\n">>
    /\ InitFiles
    /\ InitRequests
    /\ fn_text = <<>>
    /\ fn_op = "none"
    /\ fn_out = None

-----------------------------------------------------------------------------
(* POST /mermaid: one action for each step that uses a shared file, the     *)
(* statements between two such steps being part of the earlier one         *)

\* Lines 121-130: the request arrives, its body is validated.
Receive(r, body) ==
    /\ pc[r] = "idle"
    /\ get_resp' = NoGet
    /\ data' = [data EXCEPT ![r] = body]
    /\ passed' = [passed EXCEPT ![r] = Validate(body) \in {"ok", "raise128"}]
    /\ response' = [response EXCEPT ![r] =
            IF Validate(body) = "ok" THEN NoResponse
            ELSE IF Validate(body) = "400" THEN Error400
            ELSE Error500]
    /\ pc' = [pc EXCEPT ![r] =
            IF Validate(body) = "ok" THEN "generating" ELSE "responded"]
    /\ UNCHANGED <<newline, files, mermaid_text, mermaid_code, called, save_ret,
                   conv_code, conv_by, conv_ret, conv_exc, rendered_from,
                   render_ok, fnvars>>

\* Lines 132-145: the model is called and answers, or the call raises; what
\* it gave is looked at.  Without markup to write the handler goes on to the
\* page of lines 147-174 at once (png_available is False, line 130).
Generate(r) ==
    /\ pc[r] = "generating"
    /\ get_resp' = NoGet
    /\ \E outcome \in LlmOutcomes :
          LET text == generate_mermaid_code(outcome)
          IN  /\ mermaid_text' = [mermaid_text EXCEPT ![r] = text]
              /\ mermaid_code' = [mermaid_code EXCEPT ![r] = Branch(text).mermaid_code]
              /\ called' = [called EXCEPT ![r] =
                      IF Branch(text).extracted
                      THEN {"generate", "extract"} ELSE {"generate"}]
              /\ IF Branch(text).proceed
                 THEN /\ pc' = [pc EXCEPT ![r] = "save_open"]
                      /\ UNCHANGED response
                 ELSE /\ pc' = [pc EXCEPT ![r] = "responded"]
                      /\ response' = [response EXCEPT ![r] =
                              Page(Branch(text).mermaid_code, FALSE)]
    /\ UNCHANGED <<newline, files, data, passed, save_ret, conv_code, conv_by,
                   conv_ret, conv_exc, rendered_from, render_ok, fnvars>>

\* Lines 137 and 55: save_to_readme opens readme.md for writing, which
\* empties the file, or the open fails and the file is as it was.
SaveOpen(r) ==
    /\ pc[r] = "save_open"
    /\ get_resp' = NoGet
    /\ called' = [called EXCEPT ![r] = @ \cup {"save"}]
    /\ \E ok \in BOOLEAN :
          IF ok
          THEN /\ readme' = [exists |-> TRUE, content |-> <<>>, by |-> r]
               /\ pc' = [pc EXCEPT ![r] = "save_write"]
               /\ UNCHANGED save_ret
          ELSE /\ save_ret' = [save_ret EXCEPT ![r] = "False"]
               /\ pc' = [pc EXCEPT ![r] = "rendering"]
               /\ UNCHANGED readme
    /\ UNCHANGED <<newline, temp, png, data, passed, mermaid_text, mermaid_code,
                   conv_code, conv_by, conv_ret, conv_exc, rendered_from,
                   response, render_ok, fnvars>>

\* Lines 56-64: the four writes are buffered and reach the file together
\* when it is closed, or the flush fails and nothing does.
SaveWrite(r) ==
    /\ pc[r] = "save_write"
    /\ get_resp' = NoGet
    /\ \E ok \in BOOLEAN :
          IF ok
          THEN /\ readme' = [exists  |-> TRUE,
                             content |-> WriteAt0(readme.content,
                                            TextWrite(ReadmeText(mermaid_code[r]), newline)),
                             by      |-> r]
               /\ save_ret' = [save_ret EXCEPT ![r] = "True"]
          ELSE /\ save_ret' = [save_ret EXCEPT ![r] = "False"]
               /\ UNCHANGED readme
    /\ pc' = [pc EXCEPT ![r] = "rendering"]
    /\ UNCHANGED <<newline, temp, png, data, passed, mermaid_text, mermaid_code,
                   called, conv_code, conv_by, conv_ret, conv_exc, rendered_from,
                   response, render_ok, fnvars>>

\* convert_readme_to_png returns ret, from the step named exc when that is
\* False, and the handler builds its page (lines 138-141 and 147-174).
ConvReturns(r, ret, exc) ==
    /\ conv_ret' = [conv_ret EXCEPT ![r] = ret]
    /\ conv_exc' = [conv_exc EXCEPT ![r] = exc]
    /\ response' = [response EXCEPT ![r] = Page(mermaid_code[r], ret = "True")]
    /\ pc' = [pc EXCEPT ![r] = "responded"]

\* Lines 138 and 68-84: the renderer is configured (which raises when the
\* executable is not there), reads readme.md and extracts from what it read.
ConvRead(r) ==
    /\ pc[r] = "rendering"
    /\ get_resp' = NoGet
    /\ called' = [called EXCEPT ![r] = @ \cup {"convert"}]
    /\ \E config_ok \in BOOLEAN :
          IF ~config_ok
          THEN ConvReturns(r, "False", "config") /\ UNCHANGED <<conv_code, conv_by>>
          ELSE IF ~readme.exists
          THEN ConvReturns(r, "False", "open") /\ UNCHANGED <<conv_code, conv_by>>
          ELSE /\ conv_code' = [conv_code EXCEPT ![r] =
                      extract_mermaid_code(TextRead(readme.content))]
               /\ conv_by' = [conv_by EXCEPT ![r] = readme.by]
               /\ IF PyTruthy(extract_mermaid_code(TextRead(readme.content)))
                  THEN /\ pc' = [pc EXCEPT ![r] = "conv_temp"]
                       /\ UNCHANGED <<conv_ret, conv_exc, response>>
                  ELSE ConvReturns(r, "False", "nocode")
    /\ UNCHANGED <<newline, files, data, passed, mermaid_text, mermaid_code,
                   save_ret, rendered_from, render_ok, fnvars>>

\* Lines 87-110: the page is written to temp.html, or the open fails.
ConvWriteTemp(r) ==
    /\ pc[r] = "conv_temp"
    /\ get_resp' = NoGet
    /\ \E ok \in BOOLEAN :
          IF ok
          THEN /\ temp' = [exists  |-> TRUE,
                           content |-> HtmlPage(conv_code[r]),
                           by      |-> conv_by[r]]
               /\ pc' = [pc EXCEPT ![r] = "conv_imgkit"]
               /\ UNCHANGED <<conv_ret, conv_exc, response>>
          ELSE ConvReturns(r, "False", "temp") /\ UNCHANGED temp
    /\ UNCHANGED <<newline, readme, png, data, passed, mermaid_text, mermaid_code,
                   called, save_ret, conv_code, conv_by, rendered_from,
                   render_ok, fnvars>>

\* Line 112: the external renderer turns temp.html, as it is on storage,
\* into the image, or the call raises (also when temp.html is not there)
\* and the image is as it was.
ConvImgkit(r) ==
    /\ pc[r] = "conv_imgkit"
    /\ get_resp' = NoGet
    /\ \E ok \in BOOLEAN :
          IF ok /\ temp.exists
          THEN /\ png' = [exists |-> TRUE, content |-> temp.content, by |-> temp.by]
               /\ rendered_from' = [rendered_from EXCEPT ![r] = temp.by]
               /\ pc' = [pc EXCEPT ![r] = "conv_remove"]
               /\ UNCHANGED <<conv_ret, conv_exc, response>>
          ELSE ConvReturns(r, "False", "imgkit") /\ UNCHANGED <<png, rendered_from>>
    /\ UNCHANGED <<newline, readme, temp, data, passed, mermaid_text, mermaid_code,
                   called, save_ret, conv_code, conv_by, render_ok, fnvars>>

\* Lines 113-116: temp.html is removed and True returned; os.remove raises
\* when the file is not there.
ConvRemove(r) ==
    /\ pc[r] = "conv_remove"
    /\ get_resp' = NoGet
    /\ IF temp.exists
       THEN /\ temp' = os_remove(temp)
            /\ render_ok' = TRUE
            /\ ConvReturns(r, "True", "-")
       ELSE ConvReturns(r, "False", "remove") /\ UNCHANGED <<temp, render_ok>>
    /\ UNCHANGED <<newline, readme, png, data, passed, mermaid_text, mermaid_code,
                   called, save_ret, conv_code, conv_by, rendered_from, fnvars>>

\* GET /get_png, lines 176-182.
GetPng ==
    /\ get_resp' = get_png(png)
    /\ UNCHANGED <<newline, files, locals, render_ok, fnvars>>

\* Requests are handled by threads that run side by side.
Next ==
    \/ \E r \in Requests, body \in Bodies : Receive(r, body)
    \/ \E r \in Requests : Generate(r)
    \/ \E r \in Requests : SaveOpen(r)
    \/ \E r \in Requests : SaveWrite(r)
    \/ \E r \in Requests : ConvRead(r)
    \/ \E r \in Requests : ConvWriteTemp(r)
    \/ \E r \in Requests : ConvImgkit(r)
    \/ \E r \in Requests : ConvRemove(r)
    \/ GetPng

Spec == Init /\ [][Next]_vars

\* No request of either route is in progress.
Quiet == \A q \in Requests : pc[q] \in {"idle", "responded"}

\* The same handlers with the requests serialized: one is taken up only when
\* no other is in progress.
ReceiveSerial(r, body) == Quiet /\ Receive(r, body)
GetPngSerial == Quiet /\ GetPng

NextSerial ==
    \/ \E r \in Requests, body \in Bodies : ReceiveSerial(r, body)
    \/ \E r \in Requests : Generate(r)
    \/ \E r \in Requests : SaveOpen(r)
    \/ \E r \in Requests : SaveWrite(r)
    \/ \E r \in Requests : ConvRead(r)
    \/ \E r \in Requests : ConvWriteTemp(r)
    \/ \E r \in Requests : ConvImgkit(r)
    \/ \E r \in Requests : ConvRemove(r)
    \/ GetPngSerial

SpecSerial == Init /\ [][NextSerial]_vars

-----------------------------------------------------------------------------
(* Specification of the pure functions: extract_mermaid_code on any text,  *)
(* and save_to_readme followed by the renderer read and re-extraction.   *)

InitFn ==
    /\ newline \in LineSeps
    /\ InitFiles
    /\ InitRequests
    /\ fn_text \in Texts
    /\ fn_op = "input"
    /\ fn_out = None

\* extract_mermaid_code(fn_text)
FnExtract ==
    /\ fn_op = "input"
    /\ fn_out' = extract_mermaid_code(fn_text)
    /\ fn_op' = "extract"
    /\ UNCHANGED <<newline, files, locals, render_ok, get_resp, fn_text>>

\* save_to_readme(fn_text), the write succeeding
FnSave ==
    /\ fn_op = "input"
    /\ readme' = [exists  |-> TRUE,
                  content |-> TextWrite(ReadmeText(fn_text), newline),
                  by      |-> 0]
    /\ fn_op' = "saved"
    /\ UNCHANGED <<newline, temp, png, locals, render_ok, get_resp, fn_text, fn_out>>

\* convert_readme_to_png, lines 76-80: read the document, extract from it
FnReadBack ==
    /\ fn_op = "saved"
    /\ fn_out' = extract_mermaid_code(TextRead(readme.content))
    /\ fn_op' = "roundtrip"
    /\ UNCHANGED <<newline, files, locals, render_ok, get_resp, fn_text>>

NextFn == FnExtract \/ FnSave \/ FnReadBack

SpecFn == InitFn /\ [][NextFn]_vars

-----------------------------------------------------------------------------
(* What the claims call a fenced block, stated without the search above *)

OpenAt(text, i) == StartsAt(text, i, OpenFence)
CloseAt(text, j) == StartsAt(text, j, Fence)

\* The text holds an opening fence with the tag and a closing fence after it.
HasBlock(text) ==
    \E i \in 1..Len(text), j \in 1..Len(text) :
        OpenAt(text, i) /\ j >= i + Len(OpenFence) /\ CloseAt(text, j)

\* Position of the first tagged opening fence.
FirstOpen(text) ==
    CHOOSE i \in 1..Len(text) :
        OpenAt(text, i) /\ \A k \in 1..(i - 1) : ~OpenAt(text, k)

\* Position of the first closing fence after the first tagged opening fence.
FirstClose(text) ==
    CHOOSE j \in (FirstOpen(text) + Len(OpenFence))..Len(text) :
        /\ CloseAt(text, j)
        /\ \A k \in (FirstOpen(text) + Len(OpenFence))..(j - 1) : ~CloseAt(text, k)

\* What lies between the two.
FirstInterior(text) ==
    SubSeq(text, FirstOpen(text) + Len(OpenFence), FirstClose(text) - 1)

\* out is s without its leading and trailing whitespace.
IsTrimOf(out, s) ==
    /\ out # <<>> => out[1] \notin Whitespace /\ out[Len(out)] \notin Whitespace
    /\ \E a \in 0..Len(s), b \in 0..Len(s) :
          /\ a + b <= Len(s)
          /\ out = SubSeq(s, a + 1, Len(s) - b)
          /\ \A k \in 1..a : s[k] \in Whitespace
          /\ \A k \in (Len(s) - b + 1)..Len(s) : s[k] \in Whitespace

NoFenceIn(s) == \A j \in 1..Len(s) : ~CloseAt(s, j)

\* C7: extract_mermaid_code returns the whitespace-trimmed interior of the
\* first tagged block (up to the next closing fence) whatever surrounds it,
\* and None exactly when the text holds no such block.
C7_ExtractFirstBlockTrimmed ==
    fn_op = "extract" =>
        IF HasBlock(fn_text)
        THEN IsTrimOf(fn_out, FirstInterior(fn_text))
        ELSE fn_out = None

\* C7 witness: a block whose interior had whitespace trimmed, with another
\* closing fence later in the text.
C7_Witness ==
    /\ fn_op = "extract"
    /\ HasBlock(fn_text)
    /\ fn_out # <<>>
    /\ Len(fn_out) < Len(FirstInterior(fn_text))
    /\ \E j \in (FirstClose(fn_text) + 1)..Len(fn_text) : CloseAt(fn_text, j)

\* C6 as stated: for EVERY markup string M, save_to_readme(M) followed by
\* the renderer read and re-extraction gives M back.
C6_RoundTripEveryString ==
    fn_op = "roundtrip" => fn_out = fn_text

\* C6 amended: the round trip gives M back for every M that has no leading
\* or trailing whitespace, no closing fence and no carriage return.
C6_RoundTripCleanMarkup ==
    ( /\ fn_op = "roundtrip"
      /\ IsTrimOf(fn_text, fn_text)
      /\ NoFenceIn(fn_text)
      /\ \A k \in 1..Len(fn_text) : fn_text[k] # "\r" )
    => fn_out = fn_text

\* C6 witness: a multi-line markup with backticks in it went through a file
\* written with CRLF line ends and came back unchanged.
C6_Witness ==
    /\ fn_op = "roundtrip"
    /\ newline = <<"\r", "\n">>
    /\ fn_out = fn_text
    /\ \E k \in 1..Len(fn_text) : fn_text[k] = "\n"
    /\ fn_text[Len(fn_text)] = BT

-----------------------------------------------------------------------------
(* The handlers *)

Responded(r) == pc[r] = "responded"

\* C1: a request that got past the validation of line 125 is answered 200
\* with an HTML page, and 400 is answered by that validation only.
C1_ValidatedRequestGets200 ==
    \A r \in Requests :
        Responded(r) =>
            /\ passed[r] => response[r].status = 200 /\ response[r].ctype = "text/html"
            /\ response[r].status = 400 => ~passed[r] /\ called[r] = {}

\* The body is an object with the key "project_description".
HasDescription(body) == body.kind = "object" /\ body.has

\* C2: a body that is empty or has no "project_description" key is answered
\* 400 with the error body, and none of the four functions is called.
C2_MissingDescriptionGets400 ==
    \A r \in Requests :
        Responded(r) /\ ~HasDescription(data[r]) =>
            /\ response[r] = Error400
            /\ called[r] = {}

\* C3: when generate_mermaid_code gives None the answer is 200 with the text
\* "Failed to generate Mermaid code." and no <img>, the extractor, the writer
\* and the renderer are not called, and the step that takes the request from
\* generating to responded leaves the three files as they were.
C3_ModelFailureGivesFailedPage ==
    /\ [](\A r \in Requests :
            Responded(r) /\ "generate" \in called[r] /\ mermaid_text[r] = None =>
                /\ response[r] = [status |-> 200, ctype |-> "text/html",
                                  shown  |-> <<"Failed to generate Mermaid code.">>,
                                  img    |-> FALSE]
                /\ called[r] = {"generate"})
    /\ [][\A r \in Requests :
            pc[r] = "generating" /\ pc'[r] # "generating" /\ mermaid_text'[r] = None =>
                /\ pc'[r] = "responded"
                /\ UNCHANGED files]_vars

\* C3 witness: the model call of one request failed after another request
\* had left its document and its image on storage.
C3_Witness ==
    \E r \in Requests :
        /\ Responded(r)
        /\ called[r] = {"generate"}
        /\ mermaid_text[r] = None
        /\ readme.exists /\ readme.by # r
        /\ png.exists

\* C4: when save_to_readme returns False the renderer is still called and
\* returns False, the request produces no image, and the page shows the
\* markup without <img>.
C4_FailedWriteMeansNoImage ==
    \A r \in Requests :
        Responded(r) /\ save_ret[r] = "False" =>
            /\ "convert" \in called[r]
            /\ conv_ret[r] = "False"
            /\ rendered_from[r] = 0
            /\ response[r] = Page(mermaid_code[r], FALSE)

AllWhitespace(s) == \A k \in 1..Len(s) : s[k] \in Whitespace

\* The "not found" branch: the fixed text, neither writer nor renderer, no <img>.
TookNotFound(r) ==
    /\ mermaid_code[r] = <<"Mermaid code not found in the response.">>
    /\ called[r] = {"generate", "extract"}
    /\ Responded(r)
    /\ response[r] = Page(<<"Mermaid code not found in the response.">>, FALSE)

\* The request went on to the writer and the renderer with the trimmed
\* interior of the first block, and its page shows that interior.
WentOnWithInterior(r) ==
    /\ IsTrimOf(mermaid_code[r], FirstInterior(mermaid_text[r]))
    /\ pc[r] # "save_open" => "save" \in called[r]
    /\ Responded(r) =>
          /\ {"save", "convert"} \subseteq called[r]
          /\ response[r].status = 200
          /\ response[r].shown = mermaid_code[r]

\* C5 as stated: the "not found" branch is taken exactly when the reply
\* holds no tagged block; every reply with one goes on to writer and renderer.
C5_NotFoundIffNoBlock ==
    \A r \in Requests :
        "extract" \in called[r] =>
            IF HasBlock(mermaid_text[r]) THEN WentOnWithInterior(r) ELSE TookNotFound(r)

\* C5 amended: the "not found" branch is taken exactly when the reply holds
\* no tagged block or the interior of its first tagged block is empty or all
\* whitespace; every other reply goes on with the trimmed interior.
C5_NotFoundIffNoMarkup ==
    \A r \in Requests :
        "extract" \in called[r] =>
            IF HasBlock(mermaid_text[r]) /\ ~AllWhitespace(FirstInterior(mermaid_text[r]))
            THEN WentOnWithInterior(r)
            ELSE TookNotFound(r)

\* C5 witness: a reply whose tagged block is empty was answered "not found",
\* and another reply went through writer and renderer.
C5_Witness ==
    \E r, q \in Requests :
        /\ HasBlock(mermaid_text[r]) /\ TookNotFound(r)
        /\ Responded(q) /\ "convert" \in called[q] /\ response[q].img

C9_SerializedImageIsOwn ==
    \A r \in Requests :
        Responded(r) /\ response[r].img => rendered_from[r] = r

\* The race C9 describes for overlapping requests: the page of r offers the
\* image, both writers succeeded, and the image r rendered holds the markup
\* of the other request.
C9_RaceState ==
    \E r, q \in Requests :
        /\ r # q
        /\ Responded(r) /\ response[r].img
        /\ save_ret[r] = "True" /\ save_ret[q] = "True"
        /\ rendered_from[r] = q
        /\ mermaid_code[r] # mermaid_code[q]

\* C10: with the requests serialized, temp.html is written only by a render
\* that has extracted markup from the document; when convert_readme_to_png
\* returns True the page is gone; when the external renderer raises the
\* page written for that render is still there when False is returned.
C10_TempPageLifecycle ==
    [][/\ (temp' # temp /\ temp'.exists) =>
            \E r \in Requests :
                /\ pc[r] = "conv_temp"
                /\ PyTruthy(conv_code[r])
                /\ temp'.content = HtmlPage(conv_code[r])
       /\ \A r \in Requests :
            /\ (conv_ret[r] = "-" /\ conv_ret'[r] = "True") => ~temp'.exists
            /\ (conv_ret[r] = "-" /\ conv_exc'[r] = "imgkit") =>
                    /\ temp'.exists
                    /\ temp'.content = HtmlPage(conv_code[r])
      ]_vars

\* C10 witness: the external renderer raised and the request has been
\* answered with its page still on storage.
C10_Witness ==
    \E r \in Requests :
        /\ Responded(r)
        /\ conv_exc[r] = "imgkit"
        /\ temp.exists
        /\ temp.content = HtmlPage(conv_code[r])

====
